---------------------------- MODULE Spec2Model ----------------------------
(***************************************************************************)
(* A model of modbus_exporter's ModbusExporter                             *)
(* (src/src/modbus_exporter/modbus_exporter.py): configuration build       *)
(* (read_config), client construction (startup_tasks) and the poll cycle   *)
(* (get_metrics -> get_modbus_values).                                     *)
(*                                                                         *)
(* Python strings on which the code computes (lower, strip, split, the     *)
(* substring test, str()) are sequences of one-character strings, so that  *)
(* those conversions are computed and not assumed.  Python dicts are       *)
(* functions whose domain is the set of keys present; the two ordered      *)
(* dicts the code iterates (the register groups and the registers of a     *)
(* group) are sequences of <<key, value>> pairs in insertion order.        *)
(***************************************************************************)
EXTENDS Integers, Sequences, FiniteSets, TLC

VARIABLES
    config_file,   \* the configuration tree the loader supplies
    phase,         \* "new", "configured", "serving" or "failed"
    error,         \* the exception that ended configuration or startup
    self,          \* the exporter's attributes (the ones assigned so far)
    pc,            \* per get_metrics call: where the coroutine is suspended
    metric_list,   \* get_metrics' local metric_list
    metrics,       \* get_modbus_values' local metrics
    pos,           \* position of the register loop in iteration order
    count,         \* get_modbus_values' local count (0: not bound yet)
    returned,      \* what the call returned to the framework
    raised,        \* the exception the call raised ("none" when it did not)
    requests,      \* device requests issued by the call, in order
    connects,      \* connect calls issued by the call: their outcomes, in order
    start_connected, \* client.connected when the call was made
    logs,          \* log events of the call, in order
    config_log,    \* log events of read_config, in order
    previous       \* the call before this one: what it returned, its connects

vars == <<config_file, phase, error, self, pc, metric_list, metrics, pos,
          count, returned, raised, requests, connects, start_connected, logs,
          config_log, previous>>

(***************************************************************************)
(* Bounds of the model.                                                    *)
(***************************************************************************)
MaxRegs == 3       \* registers in the largest polled register map

(***************************************************************************)
(* Strings.  The string operations are functions on Text, so that an       *)
(* argument is a value when the operation is applied to it.                *)
(***************************************************************************)
UpperAlpha == <<"A","B","C","D","E","F","G","H","I","J","K","L","M",
                "N","O","P","Q","R","S","T","U","V","W","X","Y","Z">>
LowerAlpha == <<"a","b","c","d","e","f","g","h","i","j","k","l","m",
                "n","o","p","q","r","s","t","u","v","w","x","y","z">>
Digits == <<"0","1","2","3","4","5","6","7","8","9">>
Whitespace == {" ", "\t"}

Char ==
    {UpperAlpha[i] : i \in 1..26} \cup {LowerAlpha[i] : i \in 1..26}
    \cup {Digits[i] : i \in 1..10} \cup Whitespace \cup {":", "_", "-", ".", "/"}

Text == Seq(Char)

\* str.lower() on one character
LowerChar[c \in Char] ==
    IF \E i \in 1..26 : UpperAlpha[i] = c
    THEN LowerAlpha[CHOOSE i \in 1..26 : UpperAlpha[i] = c]
    ELSE c

UpperChar[c \in Char] ==
    IF \E i \in 1..26 : LowerAlpha[i] = c
    THEN UpperAlpha[CHOOSE i \in 1..26 : LowerAlpha[i] = c]
    ELSE c

\* str.lower()
Lower[s \in Text] == [i \in 1..Len(s) |-> LowerChar[s[i]]]

\* str.strip(): drop leading and trailing whitespace
LStrip[s \in Text] ==
    IF s # <<>> /\ Head(s) \in Whitespace THEN LStrip[Tail(s)] ELSE s

RStrip[s \in Text] ==
    IF s # <<>> /\ s[Len(s)] \in Whitespace
    THEN RStrip[SubSeq(s, 1, Len(s) - 1)]
    ELSE s

Strip[s \in Text] == RStrip[LStrip[s]]

\* sub in s (substring test)
Contains[s \in Text, sub \in Text] ==
    \E i \in 1..(Len(s) - Len(sub) + 1) : SubSeq(s, i, i + Len(sub) - 1) = sub

\* s.split(sep) for a one-character sep: every separator splits
SplitAcc[s \in Text, sep \in Char, cur \in Text] ==
    IF s = <<>> THEN <<cur>>
    ELSE IF Head(s) = sep THEN <<cur>> \o SplitAcc[Tail(s), sep, <<>>]
    ELSE SplitAcc[Tail(s), sep, Append(cur, Head(s))]

Split[s \in Text, sep \in Char] == SplitAcc[s, sep, <<>>]

\* str(n) for a natural number
Str[n \in Nat] ==
    IF n < 10 THEN <<Digits[n + 1]>>
    ELSE Append(Str[n \div 10], Digits[(n % 10) + 1])

\* dict[k] = v
Put(d, k, v) == [x \in (DOMAIN d) \cup {k} |-> IF x = k THEN v ELSE d[x]]

\* dict.get(k, default)
Get(d, k, default) == IF k \in DOMAIN d THEN d[k] ELSE default


(***************************************************************************)
(* Module constants of modbus_exporter.py.                                 *)
(***************************************************************************)
INT16 == <<"i","n","t","1","6">>
UINT16 == <<"u","i","n","t","1","6">>
INT32 == <<"i","n","t","3","2">>
UINT32 == <<"u","i","n","t","3","2">>
FLOAT32 == <<"f","l","o","a","t","3","2">>

DATA_TYPES == <<INT16, UINT16, INT32, UINT32, FLOAT32>>

TCP == <<"t","c","p">>
RTU == <<"r","t","u">>

\* x in list
InList(x, list) == \E i \in 1..Len(list) : list[i] = x

\* a parsing that compares the type as written, without lower()
ParseKey_caseSensitive(key) ==
    IF InList(":", key)
    THEN LET parts == Split[key, ":"]
         IN  IF Len(parts) # 2
             THEN [exc |-> "ValueError", name |-> key, data_type |-> <<>>]
             ELSE [exc |-> "none", name |-> parts[1],
                   data_type |-> Strip[parts[2]]]
    ELSE [exc |-> "none", name |-> key, data_type |-> INT16]

(***************************************************************************)
(* The parsing of a register key, lines 85-89 and, again, lines 104-108:   *)
(* a key holding ':' is split on every ':' and unpacked into exactly two   *)
(* names (ValueError otherwise); the type is stripped and lower-cased.     *)
(***************************************************************************)
ParseKey(key) ==
    IF InList(":", key)
    THEN LET parts == Split[key, ":"]
         IN  IF Len(parts) # 2
             THEN [exc |-> "ValueError", name |-> key, data_type |-> <<>>]
             ELSE [exc |-> "none", name |-> parts[1],
                   data_type |-> Lower[Strip[parts[2]]]]
    ELSE [exc |-> "none", name |-> key, data_type |-> INT16]

\* a validation that stops after the first entry of a register_list
ValidateList_firstOnly(register_list) ==
    IF register_list = <<>> THEN "none"
    ELSE LET k == ParseKey(Head(register_list)[1])
         IN  IF k.exc # "none" THEN k.exc
             ELSE IF ~InList(k.data_type, DATA_TYPES) THEN "NotImplementedError"
             ELSE "none"

\* lines 84-92 for one register_list (a sequence of <<name, address>>):
\* the first exception raised, "none" when every entry passes
RECURSIVE ValidateList(_)
ValidateList(register_list) ==
    IF register_list = <<>> THEN "none"
    ELSE LET k == ParseKey(Head(register_list)[1])
         IN  IF k.exc # "none" THEN k.exc
             ELSE IF ~InList(k.data_type, DATA_TYPES) THEN "NotImplementedError"
             ELSE ValidateList(Tail(register_list))

\* lines 83-92: modbus_registers is a sequence of <<group, register_list>>
RECURSIVE ValidateRegisters(_)
ValidateRegisters(modbus_registers) ==
    IF modbus_registers = <<>> THEN "none"
    ELSE LET e == ValidateList(Head(modbus_registers)[2])
         IN  IF e # "none" THEN e
             ELSE ValidateRegisters(Tail(modbus_registers))

\* lines 65-74: the transport block with the defaults of its mode filled in
RtuDefaults(tc) ==
    LET t1 == Put(tc, "port", Get(tc, "port", "/dev/ttyUSB0"))
        t2 == Put(t1, "baudrate", Get(t1, "baudrate", 9600))
        t3 == Put(t2, "timeout", Get(t2, "timeout", 1))
        t4 == Put(t3, "parity", Get(t3, "parity", "N"))
        t5 == Put(t4, "bytesize", Get(t4, "bytesize", 8))
    IN  Put(t5, "stopbits", Get(t5, "stopbits", 1))

TcpDefaults(tc) ==
    LET t1 == Put(tc, "host", Get(tc, "host", "127.0.0.1"))
    IN  Put(t1, "port", Get(t1, "port", 502))

TransportDefaults(mode, tc) ==
    IF mode = RTU THEN RtuDefaults(tc)
    ELSE IF mode = TCP THEN TcpDefaults(tc)
    ELSE tc

\* the key of the modbus section that self.mode indexes (line 64)
ModeKey(mode) == IF mode = TCP THEN "tcp" ELSE "rtu"

\* a read_config that compares the mode as written, without lower()
ReadConfigResult_caseSensitive(obj, cfg) ==
    LET s0 == Put(obj, "config", cfg)
    IN
    IF "modbus" \notin DOMAIN cfg
    THEN [obj |-> s0, exc |-> "ValueError: No Modbus config defined.",
          warned |-> FALSE]
    ELSE
    LET mb == cfg["modbus"]
        warned == "mode" \notin DOMAIN mb
        mode == IF warned THEN TCP ELSE mb["mode"]
        s1 == Put(s0, "mode", mode)
    IN
    IF ~InList(mode, <<TCP, RTU>>)
    THEN [obj |-> s1, exc |-> "ValueError: Invalid Modbus mode defined",
          warned |-> warned]
    ELSE IF ModeKey(mode) \notin DOMAIN mb
    THEN [obj |-> s1, exc |-> "KeyError", warned |-> warned]
    ELSE
    LET tc == TransportDefaults(mode, mb[ModeKey(mode)])
        s2 == Put(Put(s1, "config", Put(cfg, "modbus", Put(mb, ModeKey(mode), tc))),
                  "transport_config", tc)
        s3 == Put(s2, "timeout", Get(mb, "timeout", 1))
        s4 == Put(s3, "device_id", Get(mb, "device_id", 1))
        s5 == Put(s4, "modbus_registers", Get(mb, "registers", <<>>))
    IN  [obj |-> s5, exc |-> ValidateRegisters(s5["modbus_registers"]),
         warned |-> warned]

(***************************************************************************)
(* read_config, lines 49-92, as a function of the exporter's attributes    *)
(* and the loaded configuration: the attributes assigned when it returns   *)
(* or raises, the exception ("none" when it returns), and whether the      *)
(* mode warning of line 56 was logged.                                     *)
(***************************************************************************)
ReadConfigResult(obj, cfg) ==
    LET s0 == Put(obj, "config", cfg)
    IN
    IF "modbus" \notin DOMAIN cfg
    THEN [obj |-> s0, exc |-> "ValueError: No Modbus config defined.",
          warned |-> FALSE]
    ELSE
    LET mb == cfg["modbus"]
        warned == "mode" \notin DOMAIN mb
        mode == IF warned THEN TCP ELSE Lower[mb["mode"]]
        s1 == Put(s0, "mode", mode)
    IN
    IF ~InList(mode, <<TCP, RTU>>)
    THEN [obj |-> s1, exc |-> "ValueError: Invalid Modbus mode defined",
          warned |-> warned]
    ELSE IF ModeKey(mode) \notin DOMAIN mb
    THEN [obj |-> s1, exc |-> "KeyError", warned |-> warned]
    ELSE
    LET tc == TransportDefaults(mode, mb[ModeKey(mode)])
        \* transport_config aliases the block of the configuration tree
        s2 == Put(Put(s1, "config", Put(cfg, "modbus", Put(mb, ModeKey(mode), tc))),
                  "transport_config", tc)
        s3 == Put(s2, "timeout", Get(mb, "timeout", 1))
        s4 == Put(s3, "device_id", Get(mb, "device_id", 1))
        s5 == Put(s4, "modbus_registers", Get(mb, "registers", <<>>))
    IN  [obj |-> s5, exc |-> ValidateRegisters(s5["modbus_registers"]),
         warned |-> warned]


(***************************************************************************)
(* startup_tasks, lines 29-47: the client built for the mode, not yet      *)
(* connected.  The client is the library's; the model keeps its            *)
(* constructor arguments and its connected flag.                           *)
(***************************************************************************)
StartupTasksResult(obj) ==
    IF obj["mode"] = TCP
    THEN [exc |-> "none",
          obj |-> Put(obj, "client",
                      [transport |-> "tcp",
                       host |-> obj["transport_config"]["host"],
                       port |-> obj["transport_config"]["port"],
                       timeout |-> obj["timeout"],
                       connected |-> FALSE])]
    ELSE IF obj["mode"] = RTU
    THEN [exc |-> "none",
          obj |-> Put(obj, "client",
                      [transport |-> "rtu",
                       port |-> obj["transport_config"]["port"],
                       baudrate |-> obj["transport_config"]["baudrate"],
                       timeout |-> obj["timeout"],
                       parity |-> obj["transport_config"]["parity"],
                       bytesize |-> obj["transport_config"]["bytesize"],
                       stopbits |-> obj["transport_config"]["stopbits"],
                       connected |-> FALSE])]
    ELSE [exc |-> "ValueError: Invalid Modbus mode defined", obj |-> obj]

(***************************************************************************)
(* The configurations explored.                                            *)
(***************************************************************************)
EmptyDict == <<>>

\* "name:type"
Key(name, type) == name \o <<":">> \o type

\* the registers polled, in configuration order: <<group, key, address>>
Pool ==
    << <<"temp", Key(<<"b","o","i","l","e","r">>, INT16), 100>>,
       <<"temp", <<"t","a","n","k">>, 101>>,
       <<"flow", Key(<<"f","l","o","w">>, <<"F","l","o","a","t","3","2">>), 200>>,
       <<"flow", Key(<<"s","u","m">>, <<" ","u","i","n","t","3","2">>), 300>>,
       <<"level", Key(<<"l","v">>, <<"I","N","T","3","2">>), 7>> >>

\* the dict of dicts a flat list of registers is written as
RECURSIVE Nest(_)
Nest(flat) ==
    IF flat = <<>> THEN <<>>
    ELSE LET rest == Nest(Tail(flat))
             e == Head(flat)
         IN  IF rest # <<>> /\ rest[1][1] = e[1]
             THEN <<  <<e[1], << <<e[2], e[3]>> >> \o rest[1][2]>>  >> \o Tail(rest)
             ELSE <<  <<e[1], << <<e[2], e[3]>> >> >>  >> \o rest

Min(a, b) == IF a < b THEN a ELSE b

RegisterMaps == {Nest(SubSeq(Pool, 1, n)) : n \in 0..Min(MaxRegs, Len(Pool))}

\* every upper/lower-case spelling of a type name
Spellings(type) ==
    {[i \in 1..Len(type) |-> IF i \in U THEN UpperChar[type[i]] ELSE type[i]] :
        U \in SUBSET (1..Len(type))}

ValidSpellings == UNION {Spellings(DATA_TYPES[i]) : i \in 1..Len(DATA_TYPES)}

BadTypes ==
    {<<"i","n","t","8">>, <<"I","N","T","8">>, <<"i","n","t","6","4">>,
     <<"f","l","o","a","t">>, <<"F","l","o","a","t","1","6">>,
     <<"u","i","n","t"," ","1","6">>, <<"b","o","o","l">>, <<>>, <<" ">>}

PaddedTypes ==
    {<<" ">> \o INT16, UINT16 \o <<" ","\t">>,
     <<" ","F","L","O","A","T","3","2"," ">>}

\* one register "x:<type>" at address 10
OneRegister(type) == << <<"g", << <<Key(<<"x">>, type), 10>> >> >> >>

\* register maps whose keys are not all valid
BadMaps ==
    { << <<"a", << <<Key(<<"x">>, INT16), 1>>, <<<<"y">>, 2>> >> >>,
         <<"b", << <<Key(<<"z">>, UINT32), 3>>,
                   <<Key(<<"w">>, <<"I","N","T","8">>), 4>> >> >> >>,
      << <<"a", << <<Key(<<"w">>, <<"i","n","t","8">>), 4>>,
                   <<Key(<<"x">>, INT16), 1>> >> >> >>,
      << <<"a", << <<Key(<<"x">>, Key(<<"y">>, INT16)), 1>> >> >> >>,
      << <<"a", << <<Key(<<"x">>, Key(<<"y">>, INT16)), 1>>,
                   <<Key(<<"w">>, <<"i","n","t","8">>), 4>> >> >> >>,
      << <<"a", << <<Key(<<"x">>, INT16), 1>> >> >>,
         <<"b", << <<Key(<<"x">>, Key(INT16, <<>>)), 2>> >> >> >> }

\* modbus sections that poll: tcp, every register map; rtu with a
\* device_id; a 32-bit register followed by a 16-bit one
PollSections ==
    {[mode |-> TCP, tcp |-> EmptyDict, registers |-> m] : m \in RegisterMaps}
    \cup {[mode |-> RTU, rtu |-> EmptyDict, device_id |-> 7,
           registers |-> Nest(SubSeq(Pool, 1, 2))],
          [mode |-> TCP, tcp |-> EmptyDict, device_id |-> 12,
           registers |-> Nest(<<Pool[3], Pool[2]>>)]}

\* modbus sections with one register of every type spelling
TypeSections ==
    {[tcp |-> EmptyDict, registers |-> OneRegister(t)] :
        t \in ValidSpellings \cup BadTypes \cup PaddedTypes}
    \cup {[tcp |-> EmptyDict, registers |-> m] : m \in BadMaps}
    \cup {[tcp |-> EmptyDict, registers |-> << <<"g", << <<<<"x">>, 10>> >> >> >>]}

\* a dict holding the keys ks of full
Restrict(full, ks) == [k \in ks |-> full[k]]

RtuGiven == [port |-> "/dev/ttyS1", baudrate |-> 19200, timeout |-> 5,
             parity |-> "E", bytesize |-> 7, stopbits |-> 2]
TcpGiven == [host |-> "10.0.0.5", port |-> 1502]

RtuBlocks == {Restrict(RtuGiven, ks) : ks \in SUBSET (DOMAIN RtuGiven)}
TcpBlocks == {Restrict(TcpGiven, ks) : ks \in SUBSET (DOMAIN TcpGiven)}

ModeSpellings ==
    {TCP, <<"T","C","P">>, <<"T","c","p">>, RTU, <<"R","t","u">>,
     <<"R","T","U">>, <<"u","d","p">>, <<"t","c","p"," ">>, <<>>}

\* modbus sections for the transport: no registers
TransportSections ==
    {[mode |-> RTU, rtu |-> b] : b \in RtuBlocks}
    \cup {[mode |-> TCP, tcp |-> b] : b \in TcpBlocks}
    \cup {[tcp |-> b] : b \in TcpBlocks}
    \cup {[mode |-> m, tcp |-> EmptyDict, rtu |-> EmptyDict] : m \in ModeSpellings}
    \cup {[mode |-> m] : m \in ModeSpellings}
    \cup {[mode |-> RTU, tcp |-> TcpGiven], [mode |-> TCP, rtu |-> RtuGiven],
          [rtu |-> RtuGiven], [registers |-> Nest(SubSeq(Pool, 1, 2))],
          EmptyDict,
          [tcp |-> EmptyDict, device_id |-> 7], [tcp |-> EmptyDict, timeout |-> 3],
          [mode |-> RTU, rtu |-> [timeout |-> 5], timeout |-> 3, device_id |-> 247]}

Configs ==
    {[modbus |-> mb] : mb \in PollSections \cup TypeSections \cup TransportSections}
    \cup {EmptyDict, [listen_port |-> 9502]}

(***************************************************************************)
(* The state after construction (__init__, lines 24-27).                   *)
(***************************************************************************)
TaskIds == {1, 2}

Init ==
    /\ config_file \in Configs
    /\ phase = "new"
    /\ error = "none"
    /\ self = [endpoints |-> <<>>]
    /\ pc = [t \in TaskIds |-> "idle"]
    /\ metric_list = [t \in TaskIds |-> <<>>]
    /\ metrics = [t \in TaskIds |-> <<>>]
    /\ pos = [t \in TaskIds |-> 0]
    /\ count = [t \in TaskIds |-> 0]
    /\ returned = [t \in TaskIds |-> <<>>]
    /\ raised = [t \in TaskIds |-> "none"]
    /\ requests = [t \in TaskIds |-> <<>>]
    /\ connects = [t \in TaskIds |-> <<>>]
    /\ start_connected = [t \in TaskIds |-> FALSE]
    /\ logs = [t \in TaskIds |-> <<>>]
    /\ config_log = <<>>
    /\ previous = [returned |-> <<>>, connects |-> <<>>]

cycle_vars == <<pc, metric_list, metrics, pos, count, returned, raised,
                requests, connects, start_connected, logs, previous>>

\* read_config (lines 49-92), called once by the framework at construction
ReadConfig ==
    /\ phase = "new"
    /\ LET r == ReadConfigResult(self, config_file)
       IN  /\ self' = r.obj
           /\ error' = r.exc
           /\ phase' = IF r.exc = "none" THEN "configured" ELSE "failed"
           /\ config_log' =
                (IF r.warned THEN <<"warning">> ELSE <<>>)
                \o (IF "transport_config" \in DOMAIN r.obj THEN <<"info">> ELSE <<>>)
    /\ UNCHANGED <<config_file, cycle_vars>>

\* startup_tasks (lines 29-47), called once the configuration is built
StartupTasks ==
    /\ phase = "configured"
    /\ LET r == StartupTasksResult(self)
       IN  /\ self' = r.obj
           /\ error' = r.exc
           /\ phase' = IF r.exc = "none" THEN "serving" ELSE "failed"
    /\ UNCHANGED <<config_file, config_log, cycle_vars>>

(***************************************************************************)
(* The decoders of DECODER_MAP (lines 12-18), by their documented          *)
(* meaning: registers are big-endian 16-bit words, the first register the  *)
(* high-order word.  A decoded integer is [kind |-> "int", hi, lo], the    *)
(* number hi * 2^16 + lo with 0 <= lo < 2^16 (32-bit values exceed the     *)
(* checker's integers); a decoded float is [kind |-> "float", num, exp],   *)
(* the number num * 2^exp with num odd, or a float special.                *)
(***************************************************************************)
RECURSIVE Pow2(_)
Pow2(n) == IF n = 0 THEN 1 ELSE 2 * Pow2(n - 1)

Word == Pow2(16)

\* the integer hi * 2^16 + lo
Int32Value(hi, lo) == [kind |-> "int", hi |-> hi, lo |-> lo]

\* the integer n
IntValue(n) == Int32Value(n \div Word, n % Word)

\* m * 2^e with the factors of two moved from m into the exponent
RECURSIVE Dyadic(_, _)
Dyadic(m, e) ==
    IF m = 0 THEN [kind |-> "float", num |-> 0, exp |-> 0]
    ELSE IF m % 2 = 0 THEN Dyadic(m \div 2, e + 1)
    ELSE [kind |-> "float", num |-> m, exp |-> e]

decode_16bit_uint(registers) == IntValue(registers[1])

decode_16bit_int(registers) ==
    IntValue(IF registers[1] < Pow2(15) THEN registers[1]
             ELSE registers[1] - Pow2(16))

decode_32bit_uint(registers) == Int32Value(registers[1], registers[2])

\* two's complement: the sign bit is the top bit of the high-order word
decode_32bit_int(registers) ==
    Int32Value(IF registers[1] < Pow2(15) THEN registers[1]
               ELSE registers[1] - Pow2(16),
               registers[2])

\* IEEE-754 single precision: 1 sign bit, 8 exponent bits, 23 fraction bits
decode_32bit_float(registers) ==
    LET sign == registers[1] \div Pow2(15)
        e == (registers[1] \div Pow2(7)) % 256
        f == (registers[1] % Pow2(7)) * Word + registers[2]
        neg(r) == [r EXCEPT !.num = IF sign = 1 THEN 0 - r.num ELSE r.num]
    IN  IF e = 255
        THEN IF f # 0 THEN [kind |-> "nan", num |-> 0, exp |-> 0]
             ELSE [kind |-> IF sign = 1 THEN "-inf" ELSE "inf", num |-> 0, exp |-> 0]
        ELSE IF e = 0 /\ f = 0
        THEN [kind |-> IF sign = 1 THEN "-0.0" ELSE "float", num |-> 0, exp |-> 0]
        ELSE IF e = 0 THEN neg(Dyadic(f, 0 - 149))
        ELSE neg(Dyadic(Pow2(23) + f, e - 150))

\* DECODER_MAP[data_type](registers), line 125
Decode(data_type, registers) ==
    IF data_type = INT16 THEN decode_16bit_int(registers)
    ELSE IF data_type = UINT16 THEN decode_16bit_uint(registers)
    ELSE IF data_type = INT32 THEN decode_32bit_int(registers)
    ELSE IF data_type = UINT32 THEN decode_32bit_uint(registers)
    ELSE decode_32bit_float(registers)

(***************************************************************************)
(* The poll cycle.  A call of get_metrics is a coroutine: it is suspended  *)
(* at each await (the parent's get_metrics, connect, each register read)   *)
(* and runs without interruption between two awaits.                       *)
(***************************************************************************)
\* the registers in the order lines 102-103 iterate them:
\* <<metric_list, name, address>>
RECURSIVE Flatten(_)
Flatten(modbus_registers) ==
    IF modbus_registers = <<>> THEN <<>>
    ELSE LET g == Head(modbus_registers)
         IN  [i \in 1..Len(g[2]) |-> <<g[1], g[2][i][1], g[2][i][2]>>]
             \o Flatten(Tail(modbus_registers))

\* a count that, once bound, is kept for the registers that follow
CountFor_kept(data_type, c) ==
    IF c # 0 THEN c
    ELSE IF Contains[data_type, <<"1","6">>] THEN 1
    ELSE IF Contains[data_type, <<"3","2">>] THEN 2
    ELSE c

\* lines 110-113: count after the two substring tests, c when neither holds
CountFor(data_type, c) ==
    IF Contains[data_type, <<"1","6">>] THEN 1
    ELSE IF Contains[data_type, <<"3","2">>] THEN 2
    ELSE c

\* lines 128-135
Metric(name, labels, value, type, help) ==
    [name |-> name, labels |-> labels, value |-> value, type |-> type,
     help |-> help]

\* what the parent Exporter's get_metrics may return (line 142)
ParentMetric(i) ==
    Metric("exporter_up", [endpoint |-> Str[i]], IntValue(1), "gauge",
           <<"u","p">>)

ParentLists == {<<>>, <<ParentMetric(1)>>}

\* the register words a device may answer a read of c registers with
Responses(c) ==
    IF c = 1 THEN {<<250>>, <<65535>>}
    ELSE {<<16968, 0>>}

Set(f, t, v) == [f EXCEPT ![t] = v]

(***************************************************************************)
(* get_modbus_values from the head of its loop at position p to its next   *)
(* suspension (lines 102-116) or its return and that of get_metrics        *)
(* (lines 138, 151-155), with metric_list ml, metrics ms, count c, the     *)
(* call's log lg, its requests rq and the exporter's attributes obj: the   *)
(* coroutine's state at that point.                                        *)
(***************************************************************************)
PollFrom(ml, ms, p, c, lg, rq, obj) ==
    LET regs == Flatten(obj["modbus_registers"])
        at == [pc |-> "reading", metric_list |-> ml, metrics |-> ms,
               pos |-> p, count |-> c, logs |-> lg, requests |-> rq,
               self |-> obj, returned |-> <<>>, raised |-> "none"]
    IN
    IF p <= Len(regs)
    THEN LET k == ParseKey(regs[p][2])
             c2 == CountFor(k.data_type, c)
         IN  IF k.exc # "none"
             THEN [at EXCEPT !.pc = "raised", !.raised = k.exc]
             ELSE IF c2 = 0
             THEN [at EXCEPT !.pc = "raised", !.raised = "UnboundLocalError"]
             ELSE [at EXCEPT !.count = c2,
                             !.requests =
                                Append(rq, [address |-> regs[p][3],
                                            count |-> c2,
                                            device_id |-> obj["device_id"],
                                            reply |-> "pending",
                                            registers |-> <<>>])]
    ELSE [at EXCEPT !.pc = "done",
                    !.returned = ml \o ms,
                    !.logs = Append(lg, "debug"),
                    !.self = Put(obj, "metrics", ml \o ms)]

\* the coroutine of call t is now in state r
Become(t, r) ==
    /\ pc' = Set(pc, t, r.pc)
    /\ metric_list' = Set(metric_list, t, r.metric_list)
    /\ metrics' = Set(metrics, t, r.metrics)
    /\ pos' = Set(pos, t, r.pos)
    /\ count' = Set(count, t, r.count)
    /\ logs' = Set(logs, t, r.logs)
    /\ requests' = Set(requests, t, r.requests)
    /\ returned' = Set(returned, t, r.returned)
    /\ raised' = Set(raised, t, r.raised)
    /\ self' = r.self

\* the coroutine of call t resumes and runs to the state next
Resume(t, next) == \E r \in {next} : Become(t, r)

\* a list that starts from the metrics of the cycle before
NewMetrics_kept(obj) == IF "metrics" \in DOMAIN obj THEN obj["metrics"] ELSE <<>>

\* line 101: the list get_modbus_values collects into
NewMetrics(obj) == <<>>

\* a check that ignores the client's state
NeedsConnect_always(obj) == TRUE

\* a check that connects only until a cycle has completed once
NeedsConnect_first(obj) ==
    ~obj["client"].connected /\ "metrics" \notin DOMAIN obj

\* line 144: whether get_metrics calls connect
NeedsConnect(obj) == ~obj["client"].connected

\* the framework calls get_metrics (line 140): the coroutine runs to the
\* await of the parent's get_metrics (line 142)
GetMetricsCall(t) ==
    /\ phase = "serving"
    /\ pc[t] \in {"idle", "done", "raised"}
    /\ pc' = Set(pc, t, "parent")
    /\ previous' = IF pc[t] = "done"
                   THEN [returned |-> returned[t], connects |-> connects[t]]
                   ELSE previous
    /\ start_connected' = Set(start_connected, t, self["client"].connected)
    /\ metric_list' = Set(metric_list, t, <<>>)
    /\ metrics' = Set(metrics, t, <<>>)
    /\ pos' = Set(pos, t, 0)
    /\ count' = Set(count, t, 0)
    /\ returned' = Set(returned, t, <<>>)
    /\ raised' = Set(raised, t, "none")
    /\ requests' = Set(requests, t, <<>>)
    /\ connects' = Set(connects, t, <<>>)
    /\ logs' = Set(logs, t, <<>>)
    /\ UNCHANGED <<config_file, phase, error, self, config_log>>

\* the parent's get_metrics returns (line 142); lines 144-146: connect is
\* called when the client is not connected, else the registers are polled
ParentReturn(t) ==
    /\ pc[t] = "parent"
    /\ \E ml \in ParentLists :
         IF NeedsConnect(self)
         THEN /\ pc' = Set(pc, t, "connecting")
              /\ metric_list' = Set(metric_list, t, ml)
              /\ connects' = Set(connects, t, Append(connects[t], "pending"))
              /\ UNCHANGED <<self, metrics, pos, count, returned, raised,
                             requests, logs>>
         ELSE /\ Resume(t, PollFrom(ml, NewMetrics(self), 1, 0, logs[t],
                                     requests[t], self))
              /\ UNCHANGED connects
    /\ UNCHANGED <<config_file, phase, error, config_log, previous,
                   start_connected>>

\* the connect call in flight, with its outcome
Connected(t, outcome) ==
    Set(connects, t, [connects[t] EXCEPT ![Len(connects[t])] = outcome])

\* connect returns with the connection established (line 146), and
\* get_modbus_values runs to its first read (line 151)
ConnectEstablished(t) ==
    /\ pc[t] = "connecting"
    /\ connects' = Connected(t, "connected")
    /\ Resume(t, PollFrom(metric_list[t], NewMetrics(self), 1, 0, logs[t],
                           requests[t],
                           [self EXCEPT !["client"].connected = TRUE]))
    /\ UNCHANGED <<config_file, phase, error, config_log, previous,
                   start_connected>>

\* connect returns without a connection and without raising: the library's
\* connect reports failure by its return value, which line 146 drops
ConnectNoConnection(t) ==
    /\ pc[t] = "connecting"
    /\ connects' = Connected(t, "no connection")
    /\ Resume(t, PollFrom(metric_list[t], NewMetrics(self), 1, 0, logs[t],
                           requests[t], self))
    /\ UNCHANGED <<config_file, phase, error, config_log, previous,
                   start_connected>>

\* a handler that logs the failed connect and polls all the same
ConnectRaises_polls(t) ==
    /\ pc[t] = "connecting"
    /\ connects' = Connected(t, "ConnectionException")
    /\ Resume(t, PollFrom(metric_list[t], NewMetrics(self), 1, 0,
                           Append(logs[t], "critical"), requests[t], self))
    /\ UNCHANGED <<config_file, phase, error, config_log, previous,
                   start_connected>>

\* connect raises ConnectionException: lines 147-149
ConnectRaises(t) ==
    /\ pc[t] = "connecting"
    /\ connects' = Connected(t, "ConnectionException")
    /\ pc' = Set(pc, t, "done")
    /\ logs' = Set(logs, t, Append(logs[t], "critical"))
    /\ returned' = Set(returned, t, metric_list[t])
    /\ UNCHANGED <<self, metric_list, metrics, pos, count, raised, requests>>
    /\ UNCHANGED <<config_file, phase, error, config_log, previous,
                   start_connected>>

\* a read that is started and not awaited: the loop goes on while the
\* request is still in flight
Answered_notAwaited(t, reply, registers) == requests[t]

\* the request in flight, answered
Answered(t, reply, registers) ==
    [requests[t] EXCEPT ![Len(requests[t])] =
        [@ EXCEPT !.reply = reply, !.registers = registers]]

\* a read whose ConnectionException is not caught
ReadConnectionError_propagates(t) ==
    /\ pc[t] = "reading"
    /\ pc' = Set(pc, t, "raised")
    /\ raised' = Set(raised, t, "ConnectionException")
    /\ requests' = Set(requests, t, Answered(t, "ConnectionException", <<>>))
    /\ self' = [self EXCEPT !["client"].connected = FALSE]
    /\ UNCHANGED <<metric_list, metrics, pos, count, returned, logs>>
    /\ UNCHANGED <<config_file, phase, error, config_log, previous, connects,
                   start_connected>>

\* read_holding_registers raises ConnectionException (lines 117-119): the
\* loop continues with the next register
ReadConnectionError(t) ==
    /\ pc[t] = "reading"
    /\ Resume(t, PollFrom(metric_list[t], metrics[t], pos[t] + 1, count[t],
                           Append(logs[t], "critical"),
                           Answered(t, "ConnectionException", <<>>),
                           [self EXCEPT !["client"].connected = FALSE]))
    /\ UNCHANGED <<config_file, phase, error, config_log, previous, connects,
                   start_connected>>

\* an error response that ends the loop instead of continuing it
ReadErrorResponse_stops(t) ==
    /\ pc[t] = "reading"
    /\ self["client"].connected
    /\ Resume(t, PollFrom(metric_list[t], metrics[t],
                           Len(Flatten(self["modbus_registers"])) + 1,
                           count[t], Append(logs[t], "error"),
                           Answered(t, "error", <<>>), self))
    /\ UNCHANGED <<config_file, phase, error, config_log, previous, connects,
                   start_connected>>

\* an error response handled like a lost connection: the client is left
\* disconnected
ReadErrorResponse_disconnects(t) ==
    /\ pc[t] = "reading"
    /\ self["client"].connected
    /\ Resume(t, PollFrom(metric_list[t], metrics[t], pos[t] + 1, count[t],
                           Append(logs[t], "error"),
                           Answered(t, "error", <<>>),
                           [self EXCEPT !["client"].connected = FALSE]))
    /\ UNCHANGED <<config_file, phase, error, config_log, previous, connects,
                   start_connected>>

\* read_holding_registers returns an error response of the device
\* (lines 121-123): the loop continues with the next register
ReadErrorResponse(t) ==
    /\ pc[t] = "reading"
    /\ self["client"].connected
    /\ Resume(t, PollFrom(metric_list[t], metrics[t], pos[t] + 1, count[t],
                           Append(logs[t], "error"),
                           Answered(t, "error", <<>>), self))
    /\ UNCHANGED <<config_file, phase, error, config_log, previous, connects,
                   start_connected>>

\* a metric that carries the first register as read, not decoded
RegisterMetric_raw(obj, p, registers) ==
    LET e == Flatten(obj["modbus_registers"])[p]
        k == ParseKey(e[2])
    IN  Metric(e[1],
               [device_id |-> Str[obj["device_id"]], address |-> Str[e[3]]],
               IntValue(registers[1]), "gauge", k.name)

\* lines 125-136: the metric of the register at position p, read as registers
RegisterMetric(obj, p, registers) ==
    LET e == Flatten(obj["modbus_registers"])[p]
        k == ParseKey(e[2])
    IN  Metric(e[1],
               [device_id |-> Str[obj["device_id"]], address |-> Str[e[3]]],
               Decode(k.data_type, registers), "gauge", k.name)

\* read_holding_registers returns the registers (lines 125-136): the metric
\* is appended and the loop continues with the next register
ReadRegisters(t) ==
    /\ pc[t] = "reading"
    /\ self["client"].connected
    /\ \E registers \in Responses(count[t]) :
         Resume(t, PollFrom(metric_list[t],
                            Append(metrics[t],
                                   RegisterMetric(self, pos[t], registers)),
                            pos[t] + 1, count[t], Append(logs[t], "info"),
                            Answered(t, "ok", registers), self))
    /\ UNCHANGED <<config_file, phase, error, config_log, previous, connects,
                   start_connected>>

\* the calls of get_metrics the framework makes one after the other
SerialTasks == {1}

Next ==
    \/ ReadConfig
    \/ StartupTasks
    \/ \E t \in SerialTasks : GetMetricsCall(t)
    \/ \E t \in SerialTasks : ParentReturn(t)
    \/ \E t \in SerialTasks : ConnectEstablished(t)
    \/ \E t \in SerialTasks : ConnectNoConnection(t)
    \/ \E t \in SerialTasks : ConnectRaises(t)
    \/ \E t \in SerialTasks : ReadConnectionError(t)
    \/ \E t \in SerialTasks : ReadErrorResponse(t)
    \/ \E t \in SerialTasks : ReadRegisters(t)

Spec == Init /\ [][Next]_vars

\* every awaited call of a cycle eventually returns or raises
DeviceAnswers(t) ==
    \/ ParentReturn(t)
    \/ ConnectEstablished(t) \/ ConnectNoConnection(t) \/ ConnectRaises(t)
    \/ ReadConnectionError(t) \/ ReadErrorResponse(t) \/ ReadRegisters(t)

\* the configurations with registers to poll
PollInit == Init /\ config_file \in {[modbus |-> mb] : mb \in PollSections}

FairSpec ==
    PollInit /\ [][Next]_vars /\ \A t \in SerialTasks : WF_vars(DeviceAnswers(t))

(***************************************************************************)
(* Overlapping scrapes.  get_metrics takes no lock and keeps no flag, so a *)
(* second call may start while the first is suspended at an await; the two *)
(* calls share self and its client and have their own locals.              *)
(***************************************************************************)
\* one configuration: tcp, one register
OverlapInit ==
    /\ Init
    /\ config_file = [modbus |-> [mode |-> TCP, tcp |-> EmptyDict,
                                  registers |-> Nest(SubSeq(Pool, 1, 1))]]

OverlapNext ==
    \/ ReadConfig
    \/ StartupTasks
    \/ \E t \in TaskIds : GetMetricsCall(t)
    \/ \E t \in TaskIds : ParentReturn(t)
    \/ \E t \in TaskIds : ConnectEstablished(t)
    \/ \E t \in TaskIds : ConnectNoConnection(t)
    \/ \E t \in TaskIds : ConnectRaises(t)
    \/ \E t \in TaskIds : ReadConnectionError(t)
    \/ \E t \in TaskIds : ReadErrorResponse(t)
    \/ \E t \in TaskIds : ReadRegisters(t)

OverlapSpec == OverlapInit /\ [][OverlapNext]_vars

(***************************************************************************)
(* Vocabulary of the properties.  These definitions restate, on their own, *)
(* what the configuration says; they are not used by the model above.      *)
(***************************************************************************)
\* the registers of a register map in configuration order: groups in
\* order, the registers of a group in order
RECURSIVE ConfigurationOrder(_)
ConfigurationOrder(groups) ==
    IF groups = <<>> THEN <<>>
    ELSE LET n == Len(groups)
             last == groups[n]
         IN  ConfigurationOrder(SubSeq(groups, 1, n - 1))
             \o [i \in 1..Len(last[2]) |->
                    [group |-> last[1], key |-> last[2][i][1],
                     address |-> last[2][i][2]]]

\* the registers of the running configuration
Registers == ConfigurationOrder(Get(config_file["modbus"], "registers", <<>>))

Colons(key) == {i \in 1..Len(key) : key[i] = ":"}

FirstColon(key) == CHOOSE i \in Colons(key) : \A j \in Colons(key) : i <= j

\* the key with any ':type' suffix removed
HelpText(key) ==
    IF Colons(key) = {} THEN key ELSE SubSeq(key, 1, FirstColon(key) - 1)

\* the text after the ':' of a key
TypeText(key) == SubSeq(key, FirstColon(key) + 1, Len(key))

\* the data type a key declares: the type text without surrounding
\* whitespace, lower-cased; int16 when the key has no suffix
DeclaredType(key) ==
    IF Colons(key) = {} THEN INT16 ELSE Lower[Strip[TypeText(key)]]

ValidTypes == {INT16, UINT16, INT32, UINT32, FLOAT32}

\* the modbus metrics of a metric list (the parent's carry no address)
ModbusPart(list) == SelectSeq(list, LAMBDA m : "address" \in DOMAIN m.labels)

CountOf(seq, x) == Cardinality({i \in 1..Len(seq) : seq[i] = x})

Replies(t, reply) == {i \in 1..Len(requests[t]) : requests[t][i].reply = reply}

\* the positions of the requests answered with registers, in order
RECURSIVE OkPositions(_, _)
OkPositions(rq, i) ==
    IF i > Len(rq) THEN <<>>
    ELSE (IF rq[i].reply = "ok" THEN <<i>> ELSE <<>>) \o OkPositions(rq, i + 1)

(***************************************************************************)
(* C1.  When the read of a register raises a connection error, no read is  *)
(* issued for any later register of the cycle, and the cycle returns       *)
(* metrics only for the registers read before the failing one.  The code   *)
(* continues with the next register instead (line 119).                    *)
(***************************************************************************)
C1_ConnectionErrorAbortsCycle ==
    \A i \in Replies(1, "ConnectionException") :
        /\ Len(requests[1]) = i
        /\ pc[1] = "done" =>
             Len(ModbusPart(returned[1])) = Cardinality(Replies(1, "ok"))

(***************************************************************************)
(* C2.  In a cycle with no connection error, a register answered by a      *)
(* device error response contributes no metric and does not stop the       *)
(* cycle: every register is read, the modbus metrics returned are exactly  *)
(* those of the registers whose read succeeded, in order, and one          *)
(* error-level event is logged per failing register.                       *)
(***************************************************************************)
NoConnectionError(t) ==
    /\ Replies(t, "ConnectionException") = {}
    /\ connects[t] \in {<<>>, <<"connected">>}

C2_ErrorResponseSkipsOneRegister ==
    (pc[1] = "done" /\ NoConnectionError(1)) =>
        LET M == ModbusPart(returned[1])
            ok == OkPositions(requests[1], 1)
        IN  /\ Len(requests[1]) = Len(Registers)
            /\ \A i \in 1..Len(requests[1]) :
                 /\ requests[1][i].address = Registers[i].address
                 /\ requests[1][i].reply \in {"ok", "error"}
            /\ Len(M) = Len(ok)
            /\ \A j \in 1..Len(M) :
                 /\ M[j].name = Registers[ok[j]].group
                 /\ M[j].labels.address = Str[Registers[ok[j]].address]
            /\ CountOf(logs[1], "error") = Cardinality(Replies(1, "error"))
            /\ CountOf(logs[1], "critical") = 0

\* register 2 of 3 fails: two metrics and one error event
C2_Witness ==
    /\ pc[1] = "done"
    /\ Len(requests[1]) = 3
    /\ requests[1][1].reply = "ok"
    /\ requests[1][2].reply = "error"
    /\ requests[1][3].reply = "ok"
    /\ Len(ModbusPart(returned[1])) = 2
    /\ CountOf(logs[1], "error") = 1

(***************************************************************************)
(* C3.  When the connect call of a cycle raises a connection error, the    *)
(* cycle has ended: no register read was issued, exactly one critical      *)
(* event was logged, and the list returned is the parent's metrics.        *)
(***************************************************************************)
C3_ConnectFailureEndsCycle ==
    (connects[1] # <<>> /\ connects[1][Len(connects[1])] = "ConnectionException") =>
        /\ pc[1] = "done"
        /\ ~start_connected[1]
        /\ requests[1] = <<>>
        /\ logs[1] = <<"critical">>
        /\ returned[1] = metric_list[1]
        /\ ModbusPart(returned[1]) = <<>>

C3_Witness ==
    /\ pc[1] = "done"
    /\ connects[1] = <<"ConnectionException">>
    /\ returned[1] = <<ParentMetric(1)>>
    /\ Len(Registers) > 0

(***************************************************************************)
(* C4.  Every poll cycle returns a metric list, whatever connect failure,  *)
(* read connection errors and device error responses occur in it, given    *)
(* that each awaited call returns or raises: get_metrics never raises and  *)
(* a cycle that started reaches Done.                                      *)
(***************************************************************************)
C4_CycleReturns ==
    /\ [](raised[1] = "none" /\ pc[1] # "raised")
    /\ (pc[1] = "parent") ~> (pc[1] = "done")

\* a cycle that met a failed connect-less start, a read connection error and
\* a device error response, and returned
C4_Witness ==
    /\ pc[1] = "done"
    /\ Replies(1, "ConnectionException") # {}
    /\ Replies(1, "error") # {}
    /\ previous.connects = <<"ConnectionException">>

(***************************************************************************)
(* C5.  A cycle issues no connect call when the client is connected at     *)
(* its start and exactly one when it is not; a failed connect is not       *)
(* retried in the cycle.                                                   *)
(***************************************************************************)
C5_OneConnectWhenDisconnected ==
    /\ pc[1] \in {"idle", "parent"} => connects[1] = <<>>
    /\ pc[1] \in {"connecting", "reading", "done", "raised"} =>
         Len(connects[1]) = IF start_connected[1] THEN 0 ELSE 1

\* a connect that failed, a cycle that went on to three failing reads, and
\* still one connect call
C5_Witness ==
    /\ pc[1] = "done"
    /\ ~start_connected[1]
    /\ connects[1] = <<"no connection">>
    /\ Len(requests[1]) = 3

(***************************************************************************)
(* C6.  Across cycles the connection is established lazily and reused: a   *)
(* connect call is issued only while the client is not connected, so a     *)
(* cycle that finds the connection up calls no connect; and the cycle      *)
(* after one whose connect failed calls connect again.                     *)
(***************************************************************************)
C6_LazyConnectAndRetry ==
    [][/\ (phase = "serving" /\ Len(connects'[1]) > Len(connects[1])) =>
            ~self["client"].connected
       /\ (pc[1] = "parent" /\ pc'[1] # "parent" /\ self["client"].connected) =>
            connects'[1] = <<>>
       /\ (/\ pc[1] = "parent" /\ pc'[1] # "parent"
           /\ previous.connects \in {<<"ConnectionException">>, <<"no connection">>}) =>
            (pc'[1] = "connecting" /\ connects'[1] = <<"pending">>)
      ]_vars

\* the cycle after a failed connect is connecting again
C6_Witness ==
    /\ pc[1] = "connecting"
    /\ previous.connects = <<"ConnectionException">>
    /\ connects[1] = <<"pending">>

(***************************************************************************)
(* C7.  The registers are read, and their metrics appended, in             *)
(* configuration order; each register read successfully yields exactly one *)
(* metric: its name the group name, its labels device_id and address as    *)
(* strings, its help text the key without its ':type' suffix, its type     *)
(* gauge, its value the decoded value of the register's own read.          *)
(***************************************************************************)
C7_MetricsInConfigurationOrder ==
    phase = "serving" =>
        LET ok == OkPositions(requests[1], 1)
        IN  /\ Len(requests[1]) <= Len(Registers)
            /\ \A i \in 1..Len(requests[1]) :
                 requests[1][i].address = Registers[i].address
            /\ Len(metrics[1]) = Len(ok)
            /\ \A j \in 1..Len(ok) :
                 metrics[1][j] =
                    [name |-> Registers[ok[j]].group,
                     labels |-> [device_id |-> Str[Get(config_file["modbus"], "device_id", 1)],
                                 address |-> Str[Registers[ok[j]].address]],
                     value |-> Decode(DeclaredType(Registers[ok[j]].key),
                                      requests[1][ok[j]].registers),
                     type |-> "gauge",
                     help |-> HelpText(Registers[ok[j]].key)]
            /\ (pc[1] = "done" /\ requests[1] # <<>>) =>
                 returned[1] = metric_list[1] \o metrics[1]

\* boiler:int16 at 100 read as 65535, tank at 101 failing, flow:Float32 at
\* 200 read as 0x4248 0x0000: two metrics, -1 and 50.0
C7_Witness ==
    /\ pc[1] = "done"
    /\ Len(requests[1]) = 3
    /\ requests[1][2].reply = "error"
    /\ Len(metrics[1]) = 2
    /\ metrics[1][1] =
         [name |-> "temp",
          labels |-> [device_id |-> <<"1">>, address |-> <<"1","0","0">>],
          value |-> [kind |-> "int", hi |-> 0 - 1, lo |-> 65535],
          type |-> "gauge",
          help |-> <<"b","o","i","l","e","r">>]
    /\ metrics[1][2] =
         [name |-> "flow",
          labels |-> [device_id |-> <<"1">>, address |-> <<"2","0","0">>],
          value |-> [kind |-> "float", num |-> 25, exp |-> 1],
          type |-> "gauge",
          help |-> <<"f","l","o","w">>]

(***************************************************************************)
(* C8.  The modbus metrics a cycle returns come only from reads of that    *)
(* cycle: every one is the metric of a register read successfully in the   *)
(* cycle, with the value of that read; a register whose read failed or was *)
(* never reached has none, whatever an earlier cycle returned; no register *)
(* appears twice.                                                          *)
(***************************************************************************)
MetricsAt(list, address) ==
    {j \in 1..Len(list) : list[j].labels.address = Str[address]}

C8_MetricsAreFresh ==
    pc[1] = "done" =>
        LET M == ModbusPart(returned[1])
        IN  /\ \A j \in 1..Len(M) :
                 \E i \in Replies(1, "ok") :
                    /\ M[j].labels.address = Str[requests[1][i].address]
                    /\ M[j].value = Decode(DeclaredType(Registers[i].key),
                                           requests[1][i].registers)
            /\ \A i \in 1..Len(Registers) :
                 Cardinality(MetricsAt(M, Registers[i].address)) =
                    IF i \in Replies(1, "ok") THEN 1 ELSE 0

\* the register at 100 had a metric in the cycle before; its read fails in
\* this cycle and the result has no metric for it
C8_Witness ==
    /\ pc[1] = "done"
    /\ MetricsAt(ModbusPart(previous.returned), 100) # {}
    /\ requests[1] # <<>>
    /\ requests[1][1].reply = "error"
    /\ MetricsAt(ModbusPart(returned[1]), 100) = {}
    /\ ModbusPart(returned[1]) # <<>>

(***************************************************************************)
(* C9.  read_config fails with NotImplementedError whenever a register key *)
(* declares a data type that, lower-cased (and without surrounding         *)
(* whitespace), is not one of int16, uint16, int32, uint32, float32; it    *)
(* accepts every upper/lower-case spelling of the five; a key without a    *)
(* type suffix is an int16 register.  The keys are of the form "help" or   *)
(* "help:type", in a configuration whose modbus section, mode and          *)
(* transport block read_config accepted.                                   *)
(***************************************************************************)
KeysOfTheForm ==
    \A i \in 1..Len(Registers) : Cardinality(Colons(Registers[i].key)) <= 1

Signed16(w) == IF w < 32768 THEN w ELSE w - 65536

RtuDefault == [port |-> "/dev/ttyUSB0", baudrate |-> 9600, timeout |-> 1,
               parity |-> "N", bytesize |-> 8, stopbits |-> 1]

RegistersAccepted ==
    /\ KeysOfTheForm
    /\ \A i \in 1..Len(Registers) : DeclaredType(Registers[i].key) \in ValidTypes

C10_DefaultsWhenAbsent ==
    (phase # "new" /\ "modbus" \in DOMAIN config_file /\ RegistersAccepted) =>
        LET mb == config_file["modbus"]
            rtu == Get(mb, "rtu", EmptyDict)
        IN  /\ ("mode" \notin DOMAIN mb /\ Get(mb, "tcp", EmptyDict) = EmptyDict) =>
                 /\ error = "none"
                 /\ self["mode"] = TCP
                 /\ self["transport_config"] = [host |-> "127.0.0.1", port |-> 502]
            /\ ("mode" \in DOMAIN mb /\ mb["mode"] = RTU) =>
                 /\ error = "none"
                 /\ self["mode"] = RTU
                 /\ self["transport_config"] =
                      [f \in DOMAIN RtuDefault |->
                          IF f \in DOMAIN rtu THEN rtu[f] ELSE RtuDefault[f]]
            /\ error = "none" =>
                 self["device_id"] = IF "device_id" \in DOMAIN mb
                                     THEN mb["device_id"] ELSE 1


(***************************************************************************)
(* C11.  Configuration build fails with a configuration error (ValueError) *)
(* when the modbus section is missing, and when a mode is given that is    *)
(* not 'tcp' or 'rtu' compared case-insensitively; a mode given in another *)
(* case, as 'TCP' or 'Rtu', is accepted and selects the transport of its   *)
(* lower-case form: the mode kept is the lower-case one, the build         *)
(* succeeds when that mode's transport block and the registers are in      *)
(* order, and the client built is the one of that transport.               *)
(***************************************************************************)
ModeGiven ==
    /\ "modbus" \in DOMAIN config_file
    /\ "mode" \in DOMAIN config_file["modbus"]

\* the letters of a and b agree, whatever their case
SameIgnoringCase(a, b) ==
    /\ Len(a) = Len(b)
    /\ \A i \in 1..Len(a) : LowerChar[a[i]] = LowerChar[b[i]]

TransportName(mode) == IF SameIgnoringCase(mode, TCP) THEN "tcp" ELSE "rtu"

C11_ModeAndSectionErrors ==
    phase # "new" =>
        /\ "modbus" \notin DOMAIN config_file =>
             (phase = "failed" /\ error = "ValueError: No Modbus config defined.")
        /\ ModeGiven =>
             LET mode == config_file["modbus"]["mode"]
                 name == TransportName(mode)
             IN  IF ~SameIgnoringCase(mode, TCP) /\ ~SameIgnoringCase(mode, RTU)
                 THEN /\ phase = "failed"
                      /\ error = "ValueError: Invalid Modbus mode defined"
                 ELSE /\ error \notin {"ValueError: Invalid Modbus mode defined",
                                       "ValueError: No Modbus config defined."}
                      /\ self["mode"] = (IF name = "tcp" THEN TCP ELSE RTU)
                      /\ (name \in DOMAIN config_file["modbus"] /\ RegistersAccepted)
                           => (error = "none" /\ phase \in {"configured", "serving"})
                      /\ phase = "serving" =>
                           /\ self["client"].transport = name
                           /\ DOMAIN self["transport_config"] =
                                (IF name = "tcp" THEN {"host", "port"}
                                 ELSE DOMAIN RtuDefault)

\* mode 'Rtu' is serving over the serial transport
C11_Witness ==
    /\ phase = "serving"
    /\ ModeGiven
    /\ config_file["modbus"]["mode"] = <<"R","t","u">>
    /\ self["client"].transport = "rtu"
    /\ self["mode"] = RTU

(***************************************************************************)
(* C12.  Validation is eager and complete: when any register spec of the   *)
(* configuration is invalid, wherever it stands, read_config fails, no     *)
(* poll cycle runs and no register read is ever issued; and in a cycle     *)
(* that does run every register spec resolves to the type validation       *)
(* accepted, one of the enumeration, with a register count and a decoder:  *)
(* polling raises nothing, every request has a count of 1 or 2, and every  *)
(* read answered with registers has its metric.                            *)
(***************************************************************************)
AnyInvalidSpec ==
    \E i \in 1..Len(Registers) : DeclaredType(Registers[i].key) \notin ValidTypes

C12_ValidationIsEager ==
    "modbus" \in DOMAIN config_file =>
        /\ AnyInvalidSpec =>
             /\ phase \in {"new", "failed"}
             /\ \A t \in TaskIds : pc[t] = "idle" /\ requests[t] = <<>>
        /\ phase = "serving" =>
             /\ ~AnyInvalidSpec
             /\ \A t \in TaskIds : pc[t] # "raised" /\ raised[t] = "none"
             /\ \A i \in 1..Len(requests[1]) : requests[1][i].count \in {1, 2}
             /\ Len(metrics[1]) = Cardinality(Replies(1, "ok"))

\* three valid specs and then "w:INT8" in the second group: rejected
C12_Witness ==
    /\ phase = "failed"
    /\ error = "NotImplementedError"
    /\ "modbus" \in DOMAIN config_file
    /\ Len(Registers) = 4
    /\ DeclaredType(Registers[1].key) = INT16
    /\ DeclaredType(Registers[3].key) = UINT32
    /\ DeclaredType(Registers[4].key) = <<"i","n","t","8">>
    /\ requests[1] = <<>>

(***************************************************************************)
(* C14.  A poll cycle in which a register read raises a connection error   *)
(* logs exactly one critical-level event, however many registers follow    *)
(* the failing one.  The code logs one per failing read and goes on to the *)
(* next register (lines 117-119), whose read fails in turn.                *)
(***************************************************************************)
C14_OneCriticalEventPerCycle ==
    (pc[1] = "done" /\ Replies(1, "ConnectionException") # {}) =>
        CountOf(logs[1], "critical") = 1

(***************************************************************************)
(* C15.  Every read-holding-registers request of a poll cycle carries the  *)
(* register's configured address, the configured device_id (1 when none is *)
(* configured), and a count of 1 when the register's type is int16 or      *)
(* uint16 and of 2 when it is int32, uint32 or float32, whatever the       *)
(* register before it was.                                                 *)
(***************************************************************************)
RegisterCount(type) ==
    IF type \in {INT16, UINT16} THEN 1
    ELSE IF type \in {INT32, UINT32, FLOAT32} THEN 2
    ELSE 0

C15_RequestArguments ==
    phase = "serving" =>
        \A i \in 1..Len(requests[1]) :
            /\ i <= Len(Registers)
            /\ requests[1][i].address = Registers[i].address
            /\ requests[1][i].device_id =
                 (IF "device_id" \in DOMAIN config_file["modbus"]
                  THEN config_file["modbus"]["device_id"] ELSE 1)
            /\ requests[1][i].count =
                 RegisterCount(DeclaredType(Registers[i].key))

\* device 12, a float32 register at 200 and then an int16 one at 101:
\* counts 2 and 1
C15_Witness ==
    /\ Len(requests[1]) = 2
    /\ requests[1][1] = [address |-> 200, count |-> 2, device_id |-> 12,
                         reply |-> "ok", registers |-> <<16968, 0>>]
    /\ requests[1][2].address = 101
    /\ requests[1][2].count = 1
    /\ requests[1][2].device_id = 12
    /\ DeclaredType(Registers[1].key) = FLOAT32
    /\ DeclaredType(Registers[2].key) = INT16

(***************************************************************************)
(* C16.  Register keys are split on ':' once: for a key with two or more   *)
(* ':' the build still obtains one help-text part and one type part, and   *)
(* the only failure it can raise for such a key is NotImplementedError,    *)
(* when the type is outside the enumeration.  The code splits on every ':' *)
(* and unpacks into two names (line 86), which raises ValueError.          *)
(***************************************************************************)
SomeKeyWithColons ==
    \E i \in 1..Len(Registers) : Cardinality(Colons(Registers[i].key)) >= 2

C16_KeysSplitOnce ==
    (/\ phase # "new"
     /\ "modbus_registers" \in DOMAIN self
     /\ SomeKeyWithColons) =>
        error \in {"none", "NotImplementedError"}

(***************************************************************************)
(* C17.  A device error response for a register leaves the session         *)
(* untouched: the step that handles it changes neither the client nor its  *)
(* connected state and issues no connect call, and the next register of    *)
(* the cycle is read over the same, still connected, client.               *)
(***************************************************************************)
C17_ErrorResponseLeavesSession ==
    [][(/\ pc[1] = "reading"
        /\ requests'[1][Len(requests[1])].reply = "error") =>
           /\ self["client"].connected
           /\ self'["client"] = self["client"]
           /\ connects' = connects
           /\ pos[1] < Len(Registers) =>
                /\ pc'[1] = "reading"
                /\ Len(requests'[1]) = Len(requests[1]) + 1
                /\ requests'[1][Len(requests'[1])].reply = "pending"
                /\ requests'[1][Len(requests'[1])].address =
                     Registers[pos[1] + 1].address
      ]_vars

\* the first register answered by an error response, the second read and
\* answered over the connection the cycle started with
C17_Witness ==
    /\ Len(requests[1]) >= 2
    /\ requests[1][1].reply = "error"
    /\ requests[1][2].reply = "ok"
    /\ start_connected[1]
    /\ connects[1] = <<>>
    /\ self["client"].connected

(***************************************************************************)
(* C18.  A poll cycle polls only with a connected session: a register read *)
(* is issued only if the client was connected at the start of the cycle or *)
(* the cycle's own connect call established the connection; a connect call *)
(* that completes without a connection leads to no register read.  The     *)
(* code drops what connect returns (line 146) and polls unless connect     *)
(* raised (line 151).                                                      *)
(***************************************************************************)
C18_PollingOnlyWhenConnected ==
    requests[1] # <<>> =>
        \/ start_connected[1]
        \/ connects[1] = <<"connected">>

(***************************************************************************)
(* C19.  Within one poll cycle the device requests are strictly            *)
(* sequential: a read is issued only after the read before it has returned *)
(* or failed, and the first read only after the connect call has finished, *)
(* so the cycle never has more than one call in flight on the connection.  *)
(***************************************************************************)
C19_RequestsSequential ==
    /\ Cardinality(Replies(1, "pending")) + CountOf(connects[1], "pending") <= 1
    /\ \A i \in Replies(1, "pending") : i = Len(requests[1])
    /\ CountOf(connects[1], "pending") > 0 => requests[1] = <<>>
    /\ pc[1] \in {"done", "raised"} =>
         (Replies(1, "pending") = {} /\ CountOf(connects[1], "pending") = 0)

\* after a connect that finished, two reads answered and the third in flight
C19_Witness ==
    /\ connects[1] = <<"connected">>
    /\ Len(requests[1]) = 3
    /\ requests[1][1].reply = "ok"
    /\ requests[1][2].reply = "error"
    /\ requests[1][3].reply = "pending"
    /\ pc[1] = "reading"

(***************************************************************************)
(* C20.  When two scrape cycles overlap there is still only one connection *)
(* to the device: in any interleaving at most one connect call is issued   *)
(* while the session is disconnected, both cycles use the one shared       *)
(* client, and the list each cycle returns holds only the metrics of its   *)
(* own reads.  The code tests client.connected and then awaits connect     *)
(* (lines 144-146) with nothing that keeps a second call from doing the    *)
(* same in between.                                                        *)
(***************************************************************************)
ConnectInFlight(t) == connects[t] # <<>> /\ connects[t][Len(connects[t])] = "pending"

C20_OneConnectionWhenOverlapping ==
    /\ Cardinality({t \in TaskIds : ConnectInFlight(t)}) <= 1
    /\ \A t \in TaskIds :
         pc[t] = "done" =>
            LET M == ModbusPart(returned[t])
                ok == OkPositions(requests[t], 1)
            IN  /\ Len(M) = Len(ok)
                /\ \A j \in 1..Len(M) :
                     /\ M[j].labels.address = Str[requests[t][ok[j]].address]
                     /\ M[j].value =
                          Decode(DeclaredType(Registers[ok[j]].key),
                                 requests[t][ok[j]].registers)

=============================================================================
